---- MODULE Spec2Model ----
(***************************************************************************)
(* The turn-taking engine of the voice interview client:                   *)
(*   - the conversation orchestrator hook (useConversationOrchestrator.ts) *)
(*   - the Interview page that wires it to the transcription streamer and  *)
(*     to the synthesis player (unnamed/part_000)                          *)
(*   - the transcription streamer (components/LiveAudioStreamer.tsx)       *)
(*   - the synthesis player CartesiaSpeaker (unnamed/part_010)             *)
(*                                                                         *)
(* React state is modelled as it is rendered: a handler runs to completion *)
(* on a store record (the values its setState calls will commit), the      *)
(* commit runs the effects whose dependencies changed.  A callback that    *)
(* was handed to a long-lived object (the streamer) keeps the values of    *)
(* the render that created it: capState and capWaiting are those values.   *)
(*                                                                         *)
(* Two specifications:                                                     *)
(*   Spec        the session: orchestrator, page, streamer, and the player *)
(*               at the level of its calls and callbacks                   *)
(*   SpecPlayer  the player alone with its socket, its audio clock, its    *)
(*               chunk scheduling and its timers                           *)
(***************************************************************************)
EXTENDS Integers, Sequences, FiniteSets, TLC

\* ---------------------------------------------------------------- bounds
MaxReqs == 2        \* dialogue requests issued in one run
MaxMsgs == 2        \* the welcome effect re-runs while the history is shorter
MaxConns == 2       \* speak() calls of one player run
MaxTime == 3        \* audio clock ticks of one player run
MaxDur == 2         \* longest chunk, in ticks
MaxChunks == 3      \* chunks that arrive in one player run
MaxUtterance == 3    \* longest utterance under construction, in characters
MaxStitch == 7
MaxStreamers == 2
MaxStarts == 2
MaxFrames == 2
MaxSubmits == 1     \* utterances submitted in one stitch run

\* ------------------------------------------------------- program constants
pauseDurationMs == 1   \* the trailing pause, in clock ticks (500 ms)

\* RecorderProcessor's numbers are kept on grids, and every operation rounds
\* its result to the nearest grid point as the double arithmetic of the code
\* rounds to the nearest double: the noise floor and the RMS in units of 1e-4,
\* the covariances P, Q and R in units of 1e-5, the gain K in units of 1e-4,
\* the multipliers in tenths.
noiseFloor0 == 100         \* this.noiseFloor = 0.01
P0 == 100000               \* this.P = 1
Q == 1                     \* this.Q = 1e-5
R == 10000                 \* this.R = 1e-1
silenceMultiplier == 25    \* 2.5
speechMultiplier == 100    \* 10
GainUnit == 10000          \* K = 1
Tenths == 10               \* a multiplier of 1

\* ------------------------------------------------------------------ data
IDLE == "idle"
CALIBRATING == "calibrating"
LISTENING == "listening"
THINKING == "thinking"
SPEAKING == "speaking"
ConversationState == {IDLE, CALIBRATING, LISTENING, THINKING, SPEAKING}

\* Texts are sequences of characters.
DUMMY_WELCOME_MESSAGE == <<"w", ".">>
NoText == <<"-">>      \* lastSpokenTextRef's initial null

\* Transcript fragments as the transcription service sends them;
\* <<" ">> is a frame of blanks.
Fragments == { <<"c">>, <<"C", ".">>, <<" ">> }
Answers == { <<"y">> }

\* the silence interval, in ticks of the streamer's clock
SILENCE_IDLE_MS == 2

\* the termination sentinel, one token of an aiMessage
END_INTERVIEW == "[END_INTERVIEW]"

\* What the dialogue backend can return for a request.
\*   error: a network failure, a non-OK status or an error field
\*   type/problem/response: the fields of the JSON the aiMessage embeds; the
\*   response text may hold the sentinel

AiMessages ==
  { [error |-> FALSE, type |-> "normal", problem |-> FALSE,
     response |-> <<"a", ".">>],
    [error |-> FALSE, type |-> "interactive", problem |-> TRUE,
     response |-> <<"a", ".">>],
    [error |-> FALSE, type |-> "interactive", problem |-> TRUE,
     response |-> <<"a", END_INTERVIEW, ".">>],
    [error |-> TRUE, type |-> "normal", problem |-> FALSE,
     response |-> <<>>] }

VARIABLES
  \* useConversationOrchestrator
  state, messages, currentInteractiveTask, isWaitingForResponse,
  abortControllerRef, messageIdCounter, requests,
  \* Interview page
  mounted, navigated, isSpeaking, currentUtterance, currentUtteranceRef,
  textToSpeak, isInteractiveQuestion, capState, capWaiting,
  \* LiveAudioStreamer
  wsState, lastTranscript, silenceTimer, sinceFragment,
  \* the LiveAudioStreamer objects in detail, and the page's streamerRef
  streamers, streamerRef,
  \* CartesiaSpeaker
  spIsSpeaking, lastSpokenText, wsRef, conns, sources, playingSources,
  playbackTime, audioCtx, timers, now, mode,
  \* RecorderProcessor; currentRms is the RMS of the block processed last
  noiseFloor, P, currentRms,
  \* what the last step did: the operation, and the calls and callbacks it made
  ev, log

orchVars == <<state, messages, currentInteractiveTask, isWaitingForResponse,
              abortControllerRef, messageIdCounter, requests>>
pageVars == <<mounted, navigated, isSpeaking, currentUtterance,
              currentUtteranceRef, textToSpeak,
              isInteractiveQuestion, capState, capWaiting>>
streamerVars == <<wsState, lastTranscript, silenceTimer, sinceFragment,
                  streamers, streamerRef>>
playerVars == <<spIsSpeaking, lastSpokenText, wsRef, conns, sources,
                playingSources, playbackTime, audioCtx, timers, now, mode>>
recorderVars == <<noiseFloor, P, currentRms>>
vars == <<orchVars, pageVars, streamerVars, playerVars, recorderVars, ev, log>>

\* ------------------------------------------------------------ text helpers
IsSpace(c) == c = " "

RECURSIVE TrimStart(_)
TrimStart(s) ==
  IF s # <<>> /\ IsSpace(Head(s)) THEN TrimStart(Tail(s)) ELSE s

RECURSIVE TrimEnd(_)
TrimEnd(s) ==
  IF s # <<>> /\ IsSpace(s[Len(s)]) THEN TrimEnd(SubSeq(s, 1, Len(s) - 1)) ELSE s

\* String.prototype.trim
Trim(s) == TrimEnd(TrimStart(s))

\* s.split(/\s+/) of a trimmed, non-empty s: its maximal blank-free runs
RECURSIVE SplitWs(_, _, _)
SplitWs(s, cur, acc) ==
  IF s = <<>> THEN (IF cur = <<>> THEN acc ELSE Append(acc, cur))
  ELSE IF IsSpace(Head(s))
       THEN SplitWs(Tail(s), <<>>, IF cur = <<>> THEN acc ELSE Append(acc, cur))
       ELSE SplitWs(Tail(s), Append(cur, Head(s)), acc)

\* words.join(' ')
RECURSIVE JoinSp(_)
JoinSp(ws) ==
  IF ws = <<>> THEN <<>>
  ELSE IF Len(ws) = 1 THEN ws[1]
  ELSE ws[1] \o <<" ">> \o JoinSp(Tail(ws))

\* String.prototype.toLowerCase on the letters the model uses
ToLowerCase(c) ==
  CASE c = "A" -> "a" [] c = "B" -> "b" [] c = "C" -> "c" [] c = "S" -> "s"
    [] c = "T" -> "t" [] c = "Y" -> "y" [] OTHER -> c

\* cleanWord: word.replace(/[.,?]/g, '').toLowerCase()
cleanWord(w) ==
  LET kept == SelectSeq(w, LAMBDA c : c \notin {".", ",", "?"})
  IN  [i \in 1..Len(kept) |-> ToLowerCase(kept[i])]

\* The overlap search of intelligentStitch: the largest i, from
\* min(len(base), len(fragment)) down to 1, such that the cleaned last i
\* words of base equal the cleaned first i words of fragment; 0 if none.
RECURSIVE OverlapFrom(_, _, _)
OverlapFrom(baseWords, fragmentWords, i) ==
  IF i < 1 THEN 0
  ELSE LET baseSuffix == SubSeq(baseWords, Len(baseWords) - i + 1, Len(baseWords))
           fragmentPrefix == SubSeq(fragmentWords, 1, i)
           cleanedBaseSuffix ==
             JoinSp([k \in 1..i |-> cleanWord(baseSuffix[k])])
           cleanedFragmentPrefix ==
             JoinSp([k \in 1..i |-> cleanWord(fragmentPrefix[k])])
       IN  IF cleanedBaseSuffix = cleanedFragmentPrefix THEN i
           ELSE OverlapFrom(baseWords, fragmentWords, i - 1)

\* smartStitch of pages/Interview.tsx: the fragment when it starts with the
\* base, compared in lower case, else base, a blank, fragment
StartsWith(s, prefix) ==
  Len(prefix) <= Len(s) /\ SubSeq(s, 1, Len(prefix)) = prefix

smartStitch(baseText, newFragment) ==
  LET base == Trim(baseText)
      fragment == Trim(newFragment)
      lower(s) == [i \in 1..Len(s) |-> ToLowerCase(s[i])]
  IN  IF StartsWith(lower(fragment), lower(base)) THEN fragment
      ELSE base \o <<" ">> \o fragment

Min(a, b) == IF a < b THEN a ELSE b
Max(a, b) == IF a > b THEN a ELSE b

intelligentStitch(baseText, newFragment) ==
  LET base == Trim(baseText)
      fragment == Trim(newFragment)
  IN  IF base = <<>> THEN fragment
      ELSE IF fragment = <<>> THEN base
      ELSE LET baseWords == SplitWs(base, <<>>, <<>>)
               fragmentWords == SplitWs(fragment, <<>>, <<>>)
               overlapLength ==
                 OverlapFrom(baseWords, fragmentWords,
                             Min(Len(baseWords), Len(fragmentWords)))
               nonOverlappingFragment ==
                 JoinSp(SubSeq(fragmentWords, overlapLength + 1, Len(fragmentWords)))
           IN  Trim(base \o <<" ">> \o nonOverlappingFragment)

\* LiveAudioStreamer.cleanTranscription: drops every character outside
\* [a-zA-Z0-9\s.,'-?] (the range '-? spans ' to ?), then trims
cleanTranscription(text) ==
  Trim(SelectSeq(text, LAMBDA c : c \notin {"!", "#", "@", "~"}))

\* splitSentences: cut after each [.?!] that is followed by blanks
RECURSIVE BlankRunEnd(_, _)
BlankRunEnd(s, j) ==
  IF j < Len(s) /\ IsSpace(s[j + 1]) THEN BlankRunEnd(s, j + 1) ELSE j

RECURSIVE SplitScan(_, _, _, _)
SplitScan(s, i, lastIndex, acc) ==
  IF i > Len(s)
  THEN IF lastIndex < Len(s)
       THEN Append(acc, Trim(SubSeq(s, lastIndex + 1, Len(s))))
       ELSE acc
  ELSE IF s[i] \in {".", "?", "!"} /\ i < Len(s) /\ IsSpace(s[i + 1])
       THEN LET j == BlankRunEnd(s, i)
            IN  SplitScan(s, j + 1, j, Append(acc, Trim(SubSeq(s, lastIndex + 1, i))))
       ELSE SplitScan(s, i + 1, lastIndex, acc)

splitSentences(text) ==
  SelectSeq(SplitScan(text, 1, 0, <<>>), LAMBDA x : x # <<>>)

\* parseAIResponse on the fields the embedded JSON yields (every text of the
\* model is shorter than the 400 characters that turn it into a long_text task)
parseAIResponse(raw) ==
  LET textForHistory ==
        IF raw.response = <<>> THEN <<"t", "a", "s", "k">> ELSE raw.response
  IN  [textForHistory |-> textForHistory,
       textForSpeech |-> textForHistory,
       responseType |-> raw.type,
       problemData |-> IF raw.problem THEN "task" ELSE "null"]

\* ------------------------------------------------------------------ store
\* What a handler works on: the values its setState and ref writes commit.
Store ==
  [state |-> state, messages |-> messages,
   currentInteractiveTask |-> currentInteractiveTask,
   isWaitingForResponse |-> isWaitingForResponse,
   abortControllerRef |-> abortControllerRef,
   messageIdCounter |-> messageIdCounter, requests |-> requests,
   navigated |-> navigated, isSpeaking |-> isSpeaking,
   currentUtterance |-> currentUtterance,
   currentUtteranceRef |-> currentUtteranceRef, textToSpeak |-> textToSpeak,
   isInteractiveQuestion |-> isInteractiveQuestion,
   wsState |-> wsState, lastTranscript |-> lastTranscript,
   silenceTimer |-> silenceTimer, sinceFragment |-> sinceFragment,
   streamers |-> streamers, streamerRef |-> streamerRef,
   spIsSpeaking |-> spIsSpeaking, lastSpokenText |-> lastSpokenText,
   wsRef |-> wsRef, conns |-> conns, sources |-> sources,
   playingSources |-> playingSources, playbackTime |-> playbackTime,
   audioCtx |-> audioCtx, timers |-> timers,
   noiseFloor |-> noiseFloor, P |-> P, currentRms |-> currentRms,
   log |-> <<>>]

\* The log of a step: the calls and callbacks made, in call order; an
\* onStateChange entry carries the state left and the state entered.
Logged(s, what) ==
  [s EXCEPT !.log = Append(@, [call |-> what, from |-> "", to |-> ""])]

\* The refs the page and the hook sync on every render.
\* a ref that was never synced after the first render
messagesRefAtMount == <<>>

\* messagesRef.current = messages, on every render
messagesRef == messages
isSpeakingRef == isSpeaking

\* ----------------------------------------------- useConversationOrchestrator
\* Interview's onStateChange: setIsListening, setIsSpeaking
onStateChange(s, newState) ==
  [s EXCEPT !.isSpeaking = (newState = SPEAKING),
            !.log = Append(@, [call |-> "onStateChange", from |-> s.state,
                               to |-> newState])]

\* a transitionToState that does not compare the new state with the old one
transitionAlways(s, newState) ==
  [onStateChange(s, newState) EXCEPT !.state = newState]

\* setState(prevState => ...): nothing on the same state, else the callback
\* and the new state
transitionToState(s, newState) ==
  IF s.state = newState THEN s
  ELSE [onStateChange(s, newState) EXCEPT !.state = newState]

\* an addMessage that puts the new message in front
addMessageFront(s, role, content) ==
  [s EXCEPT !.messageIdCounter = @ + 1,
            !.messages = <<[role |-> role, content |-> content,
                            id |-> s.messageIdCounter + 1]>> \o @]

\* msgs.map(msg => ({ role: 'model' | 'user', parts: [{ text }] }))
convertToHistoryFormat(msgs) ==
  [i \in DOMAIN msgs |->
     [role |-> IF msgs[i].role = "ai" THEN "model" ELSE "user",
      parts |-> <<msgs[i].content>>]]

addMessage(s, role, content) ==
  [s EXCEPT !.messageIdCounter = @ + 1,
            !.messages = Append(@, [role |-> role, content |-> content,
                                    id |-> s.messageIdCounter + 1])]

startListening(s) == transitionToState(Logged(s, "startListening"), LISTENING)
completeSpeaking(s) == transitionToState(s, LISTENING)

startCalibration(s) == transitionToState(s, CALIBRATING)

\* a reset that keeps the history, the task and the waiting flag
resetStateOnly(s) == transitionToState(s, IDLE)

resetConversation(s) ==
  transitionToState([s EXCEPT !.messages = <<>>,
                              !.currentInteractiveTask = "null",
                              !.isWaitingForResponse = FALSE], IDLE)

\* a sendMessage that does not abort the request it supersedes
AbortNothing(reqs, ctrl) == reqs

\* abortControllerRef.current.abort(): the request of that controller, if it
\* has not settled, will reject with an AbortError
AbortCurrent(reqs, ctrl) ==
  IF ctrl # 0 THEN [reqs EXCEPT ![ctrl].aborted = TRUE] ELSE reqs

\* Requests issued and neither settled nor aborted.
InFlight(reqs) ==
  { r \in DOMAIN reqs : ~reqs[r].settled /\ ~reqs[r].aborted }

\* sendMessage up to its fetch.  seenWaiting is the isWaitingForResponse of
\* the render whose sendMessage the caller holds.
sendMessage(s, content, seenWaiting) ==
  IF seenWaiting THEN Logged(s, "sendMessage:ignored")
  ELSE IF Trim(content) = <<>> THEN Logged(s, "sendMessage:empty")
  ELSE LET s1 == addMessage(s, "user", content)
           s2 == transitionToState(s1, THINKING)
           s3 == [s2 EXCEPT !.isWaitingForResponse = TRUE]
           aborted == AbortCurrent(s3.requests, s3.abortControllerRef)
           request == [content |-> content, history |-> convertToHistoryFormat(messagesRef),
                       aborted |-> FALSE, settled |-> FALSE]
       IN  Logged([s3 EXCEPT !.requests = Append(aborted, request),
                             !.abortControllerRef = Len(aborted) + 1],
                  "sendMessage:issued")

\* cleanup: abort the current request
cleanupOrchestrator(s) ==
  [s EXCEPT !.requests = AbortCurrent(@, s.abortControllerRef)]

\* a catch block that swallows the error
catchSilently(s) == s

\* the catch block for an error that is not an AbortError
catchError(s) == transitionToState(Logged(s, "onError"), IDLE)

\* String.prototype.includes for a token of the text
includesAtStart(text, token) == text # <<>> /\ text[1] = token

includes(text, token) == \E i \in DOMAIN text : text[i] = token

\* what a backend answer is: an error, a termination, or a parsed response
RawKind(raw) ==
  IF raw.error THEN "error"
  ELSE IF \E i \in DOMAIN raw.response : raw.response[i] = END_INTERVIEW
       THEN "sentinel"
  ELSE raw.type

\* sendMessage from the fetch's resolution on, for request r and the
\* backend's answer raw; result is what sendMessage returns.
sendMessageSettle(s, r, raw) ==
  LET done == [s EXCEPT !.requests[r].settled = TRUE,
                        !.isWaitingForResponse = FALSE]
  IN  IF raw.error
      THEN [store |-> catchError(done), result |-> "error", speech |-> <<>>]
      ELSE IF includes(raw.response, END_INTERVIEW)
      THEN [store |-> transitionToState(done, IDLE),
            result |-> "terminated", speech |-> <<>>]
      ELSE LET parsedResponse == parseAIResponse(raw)
               s1 == addMessage(done, "ai", parsedResponse.textForHistory)
               interactive == parsedResponse.responseType = "interactive"
                              /\ parsedResponse.problemData # "null"
               s2 == [s1 EXCEPT !.currentInteractiveTask =
                                   IF interactive THEN parsedResponse.problemData
                                   ELSE "null"]
               s3 == IF interactive
                     THEN Logged([s2 EXCEPT !.isInteractiveQuestion = TRUE],
                                 "onInteractiveTask")
                     ELSE s2
           IN  [store |-> transitionToState(s3, SPEAKING),
                result |-> IF interactive THEN "interactive" ELSE "normal",
                speech |-> parsedResponse.textForSpeech]

\* an abort that is handled like any other error
sendMessageAbortedLoud(s, r) ==
  catchError([s EXCEPT !.requests[r].settled = TRUE,
                       !.isWaitingForResponse = FALSE])

\* the catch and finally of a request whose controller was aborted
sendMessageAborted(s, r) ==
  [s EXCEPT !.requests[r].settled = TRUE, !.isWaitingForResponse = FALSE]

\* ------------------------------------------------------------ CartesiaSpeaker
\* Interview's props: onSpeakingStateChange = setIsSpeaking,
\* onComplete = completeSpeaking
onSpeakingStateChange(s, b) ==
  Logged([s EXCEPT !.isSpeaking = b], IF b THEN "ssc:true" ELSE "ssc:false")

onComplete(s) == completeSpeaking(Logged(s, "onComplete"))

\* what the timeout of onended, ws.onerror and the no-sentence path do
SignalComplete(s) ==
  onComplete(onSpeakingStateChange([s EXCEPT !.spIsSpeaking = FALSE], FALSE))

\* source.stop() on every playing source; every source scheduled so far
\* belongs to the schedule that this stop() resets
StopSources(srcs, playing) ==
  [i \in DOMAIN srcs |->
     [srcs[i] EXCEPT !.stopped = @ \/ i \in playing, !.old = TRUE]]

\* wsRef.current.close() when the socket is OPEN
CloseIfOpen(cs, ref) ==
  IF ref # 0 /\ cs[ref].rs = "OPEN" THEN [cs EXCEPT ![ref].rs = "CLOSING"] ELSE cs

\* every speak() call made so far is cancelled by this stop()
MarkCancelled(cs, wasSpeaking) ==
  [c \in DOMAIN cs |->
     IF cs[c].cancelled = "no"
     THEN [cs[c] EXCEPT !.cancelled = IF wasSpeaking THEN "speaking" ELSE "idle"]
     ELSE cs[c]]

stopPlayback(s) ==
  LET s1 == [s EXCEPT !.sources = StopSources(@, s.playingSources),
                      !.playingSources = {},
                      !.conns = MarkCancelled(CloseIfOpen(@, s.wsRef), s.spIsSpeaking),
                      !.wsRef = 0]
      s2 == IF s.spIsSpeaking
            THEN onSpeakingStateChange([s1 EXCEPT !.spIsSpeaking = FALSE], FALSE)
            ELSE s1
  IN  Logged([s2 EXCEPT !.playbackTime = 0, !.lastSpokenText = s.textToSpeak],
             "stop")

\* speakSentences up to the creation of the socket.  seenSpeaking is the
\* isSpeaking of the render whose effect calls it.
speakSentences(s, text, seenSpeaking, m) ==
  IF seenSpeaking \/ text = <<>> THEN s
  ELSE LET s1 == onSpeakingStateChange([s EXCEPT !.spIsSpeaking = TRUE], TRUE)
           sentences == splitSentences(text)
       IN  IF sentences = <<>> THEN SignalComplete(s1)
           ELSE [s1 EXCEPT
                   !.audioCtx = TRUE,
                   !.conns = Append(@, [text |-> text,
                                        sentences |-> sentences, mode |-> m,
                                        rs |-> "CONNECTING", sent |-> 0,
                                        delivered |-> {},
                                        cancelled |-> "no", completions |-> 0,
                                        early |-> FALSE]),
                   !.wsRef = Len(s.conns) + 1]

\* the effect on [text, trigger, mode, speechRate]: both branches speak a
\* text that is not empty and differs from the last one spoken
SpeakEffect(s, m) ==
  IF s.textToSpeak # <<>> /\ s.textToSpeak # s.lastSpokenText
  THEN speakSentences([s EXCEPT !.lastSpokenText = s.textToSpeak],
                      s.textToSpeak, s.spIsSpeaking, m)
  ELSE s

\* a player that speaks its text again after every render
RunEffectsRespeak(s) ==
  LET s1 == [s EXCEPT !.currentUtteranceRef = s.currentUtterance]
  IN  IF s.textToSpeak # <<>>
      THEN speakSentences([s1 EXCEPT !.lastSpokenText = s.textToSpeak],
                          s.textToSpeak, FALSE, mode)
      ELSE s1

\* the player's effect has a dependency that changed
PlayerEffectDue(s) ==
  s.textToSpeak # textToSpeak \/ (s.state = SPEAKING) # (state = SPEAKING)

\* The effects of the render that commits a handler's store: the page's
\* currentUtteranceRef.current = currentUtterance, and the player's effect
\* when one of its dependencies changed.
RunEffects(s) ==
  LET s1 == [s EXCEPT !.currentUtteranceRef = s.currentUtterance]
  IN  IF PlayerEffectDue(s) THEN SpeakEffect(s1, mode) ELSE s1

\* ------------------------------------------------------------- Interview page
\* LiveAudioStreamer.cleanup, as far as the session sees it
\* silenceTimer is the time left on the pending timer, -1 when there is none
clearSilenceTimer(s) == [s EXCEPT !.silenceTimer = -1]

\* clearSilenceTimer, then setTimeout(..., SILENCE_IDLE_MS)
startSilenceTimer(s) == [clearSilenceTimer(s) EXCEPT !.silenceTimer = SILENCE_IDLE_MS]

\* stopStreaming is cleanup: the timer is cleared, the socket closed
stopStreaming(s) == [clearSilenceTimer(s) EXCEPT !.wsState = "closed"]

handleEndInterview(s) ==
  [cleanupOrchestrator(stopStreaming(s)) EXCEPT !.navigated = TRUE]

\* sendChatMessage after orchestratorSendMessage has returned result
sendChatResult(s, result, speech) ==
  IF result = "error" THEN s
  ELSE IF result = "terminated" THEN handleEndInterview(s)
  ELSE [s EXCEPT !.textToSpeak = IF speech # <<>> THEN speech ELSE @,
                 !.isInteractiveQuestion = (result = "interactive")]

\* sendChatMessage up to the point where it awaits the backend; a call that
\* sendMessage turns down returns {} at once
sendChatMessage(s, message, seenWaiting) ==
  LET s1 == sendMessage(s, message, seenWaiting)
  IN  IF Len(s1.requests) > Len(s.requests) THEN s1
      ELSE sendChatResult(s1, "none", <<>>)

\* handleTranscriptUpdate of the render the streamer was created in:
\* seenState and seenWaiting are that render's conversationState and
\* isWaitingForResponse
handleTranscriptUpdate(s, transcript, isFinal, seenState, seenWaiting) ==
  LET s1 == IF seenState # LISTENING /\ seenState # THINKING
            THEN startListening(s) ELSE s
      s2 == IF isSpeakingRef THEN stopPlayback(s1) ELSE s1
      newUtterance == intelligentStitch(currentUtteranceRef, transcript)
      s3 == [s2 EXCEPT !.currentUtterance = newUtterance]
  IN  IF isFinal /\ Trim(newUtterance) # <<>>
      THEN sendChatMessage([s3 EXCEPT !.currentUtterance = <<>>],
                           newUtterance, seenWaiting)
      ELSE s3

\* the welcome effect, which depends on the hook's result object
welcomeEffect(s) ==
  LET s1 == addMessage(s, "ai", DUMMY_WELCOME_MESSAGE)
  IN  transitionToState([s1 EXCEPT !.textToSpeak = DUMMY_WELCOME_MESSAGE],
                        SPEAKING)

\* handleStart: the previous streamer is stopped, a new one is created and
\* started
handleStart(s) ==
  [stopStreaming(s) EXCEPT !.wsState = "connecting", !.lastTranscript = <<>>]

\* ---------------------------------------------------------------- actions
\* the store s becomes the next state
Committed(s, e) ==
      /\ state' = s.state
      /\ messages' = s.messages
      /\ currentInteractiveTask' = s.currentInteractiveTask
      /\ isWaitingForResponse' = s.isWaitingForResponse
      /\ abortControllerRef' = s.abortControllerRef
      /\ messageIdCounter' = s.messageIdCounter
      /\ requests' = s.requests
      /\ navigated' = s.navigated
      /\ isSpeaking' = s.isSpeaking
      /\ currentUtterance' = s.currentUtterance
      /\ currentUtteranceRef' = s.currentUtteranceRef
      /\ textToSpeak' = s.textToSpeak
      /\ isInteractiveQuestion' = s.isInteractiveQuestion
      /\ wsState' = s.wsState
      /\ lastTranscript' = s.lastTranscript
      /\ silenceTimer' = s.silenceTimer
      /\ sinceFragment' = s.sinceFragment
      /\ streamers' = s.streamers
      /\ streamerRef' = s.streamerRef
      /\ spIsSpeaking' = s.spIsSpeaking
      /\ lastSpokenText' = s.lastSpokenText
      /\ wsRef' = s.wsRef
      /\ conns' = s.conns
      /\ sources' = s.sources
      /\ playingSources' = s.playingSources
      /\ playbackTime' = s.playbackTime
      /\ audioCtx' = s.audioCtx
      /\ timers' = s.timers
      /\ noiseFloor' = s.noiseFloor
      /\ P' = s.P
      /\ currentRms' = s.currentRms
      /\ log' = s.log
      /\ ev' = e

\* a handler's updates are rendered and the effects of that render have run
Commit(s0, e) == Committed(RunEffects(s0), e)

\* a handler's updates are rendered, the effects of that render have not run
\* yet; taken only when the player's effect has nothing to do
CommitBeforeEffects(s0, e) ==
  /\ ~PlayerEffectDue(s0)
  /\ Committed(s0, e)

\* The handler a step ran: its name, the request or speak() call it is about,
\* and for a backend response what it carried (inp) and what sendMessage
\* returned (res).
Event(op, req, ctx) ==
  [op |-> op, req |-> req, ctx |-> ctx, inp |-> "none", res |-> "none"]

Live == mounted /\ ~navigated

InitCommon ==
  /\ state = IDLE
  /\ messages = <<>>
  /\ currentInteractiveTask = "null"
  /\ isWaitingForResponse = FALSE
  /\ abortControllerRef = 0
  /\ messageIdCounter = 0
  /\ requests = <<>>
  /\ navigated = FALSE
  /\ isSpeaking = FALSE
  /\ currentUtteranceRef = <<>>
  /\ isInteractiveQuestion = FALSE
  /\ capState = IDLE
  /\ capWaiting = FALSE
  /\ wsState = "none"
  /\ lastTranscript = <<>>
  /\ silenceTimer = -1
  /\ sinceFragment = SILENCE_IDLE_MS
  /\ streamers = <<>>
  /\ streamerRef = 0
  /\ spIsSpeaking = FALSE
  /\ lastSpokenText = NoText
  /\ wsRef = 0
  /\ conns = <<>>
  /\ sources = <<>>
  /\ playingSources = {}
  /\ playbackTime = 0
  /\ audioCtx = FALSE
  /\ timers = <<>>
  /\ now = 0
  /\ noiseFloor = noiseFloor0
  /\ P = P0
  /\ currentRms = -1
  /\ log = <<>>
  /\ ev = Event("init", 0, 0)

Init ==
  /\ InitCommon
  /\ currentUtterance = <<>>
  /\ mounted = FALSE
  /\ textToSpeak = DUMMY_WELCOME_MESSAGE
  /\ mode = "full"

\* The first render's effects: the player's effect, the welcome effect, and
\* handleStart with the callbacks of the first render.
Mount ==
  /\ ~mounted
  /\ mounted' = TRUE
  /\ capState' = state
  /\ capWaiting' = isWaitingForResponse
  /\ Commit(handleStart(welcomeEffect(SpeakEffect(Store, mode))),
            Event("mount", 0, 0))
  /\ UNCHANGED <<now, mode>>

WelcomeEffect ==
  /\ Live
  /\ Len(messages) < MaxMsgs
  /\ Commit(welcomeEffect(Store), Event("welcomeEffect", 0, 0))
  /\ UNCHANGED <<mounted, capState, capWaiting, now, mode>>

\* selectedAudioDevice changes: the effect's cleanup runs, then handleStart
\* with the callbacks of this render
DeviceChange ==
  /\ Live
  /\ capState' = state
  /\ capWaiting' = isWaitingForResponse
  /\ Commit(handleStart(cleanupOrchestrator(stopStreaming(Store))),
            Event("deviceChange", 0, 0))
  /\ UNCHANGED <<mounted, now, mode>>

\* ws.onopen of the streamer: onConnectionOpen calls startListening
StreamerOpen ==
  /\ Live
  /\ wsState = "connecting"
  /\ Commit(startListening([Store EXCEPT !.wsState = "open"]),
            Event("streamerOpen", 0, 0))
  /\ UNCHANGED <<mounted, capState, capWaiting, now, mode>>

\* ws.onmessage of the streamer, with the callbacks it was constructed with;
\* sinceFragment records that a frame came
onmessage(s, fragment, seenState, seenWaiting) ==
  LET t == Trim(fragment)
      s1 == [s EXCEPT !.lastTranscript = t, !.sinceFragment = 0]
  IN  IF t # <<>>
      THEN startSilenceTimer(
             handleTranscriptUpdate(Logged(s1, "onTranscriptUpdate:interim"),
                                    t, FALSE, seenState, seenWaiting))
      ELSE s1

\* A frame arrives. is_final is the frame's own mark; the handler reads
\* parsed.transcript only.
WsMessage(fragment, is_final) ==
  /\ Live
  /\ wsState = "open"
  /\ Len(intelligentStitch(currentUtteranceRef, fragment)) <= MaxUtterance
  /\ Commit(onmessage(Store, fragment, capState, capWaiting),
            [Event("wsMessage", 0, 0)
               EXCEPT !.inp = IF is_final THEN "is_final" ELSE "none"])
  /\ UNCHANGED <<mounted, capState, capWaiting, now, mode>>

\* the timer's callback: silenceTimer = null, then finishUtterance
finishUtterance(s, seenState, seenWaiting) ==
  LET cleanedTxt == cleanTranscription(s.lastTranscript)
      s1 == IF cleanedTxt # <<>>
            THEN handleTranscriptUpdate(Logged(s, "onTranscriptUpdate:final"),
                                        cleanedTxt, TRUE, seenState, seenWaiting)
            ELSE s
  IN  [s1 EXCEPT !.lastTranscript = <<>>]

\* the silence timer fires, at some time while it is pending
SilenceTimerFire ==
  /\ Live
  /\ silenceTimer >= 0
  /\ Len(requests) < MaxReqs
  /\ Commit(finishUtterance(clearSilenceTimer(Store), capState, capWaiting),
            Event("silenceTimer", 0, 0))
  /\ UNCHANGED <<mounted, capState, capWaiting, now, mode>>

\* handleInteractiveSubmit, a callback of the current render
InteractiveSubmit(answer) ==
  /\ Live
  /\ isInteractiveQuestion
  /\ Len(requests) < MaxReqs
  /\ Commit(IF Trim(answer) # <<>>
            THEN sendChatMessage(Store, answer, isWaitingForResponse)
            ELSE Store,
            Event("interactiveSubmit", 0, 0))
  /\ UNCHANGED <<mounted, capState, capWaiting, now, mode>>

\* the backend answers request r
Respond(r, raw) ==
  /\ Live
  /\ r \in InFlight(requests)
  /\ LET res == sendMessageSettle(Store, r, raw)
     IN  Commit(sendChatResult(res.store, res.result, res.speech),
                [Event("response", r, 0) EXCEPT !.inp = RawKind(raw),
                                                !.res = res.result])
  /\ UNCHANGED <<mounted, capState, capWaiting, now, mode>>

\* the fetch of an aborted request rejects
AbortSettle(r) ==
  /\ Live
  /\ r \in DOMAIN requests
  /\ requests[r].aborted /\ ~requests[r].settled
  /\ Commit(sendChatResult(sendMessageAborted(Store, r), "error", <<>>),
            Event("abortSettle", r, 0))
  /\ UNCHANGED <<mounted, capState, capWaiting, now, mode>>

\* the playback of a speak() call runs to the timeout that signals its end
PlaybackFinished ==
  /\ Live
  /\ conns # <<>>
  /\ Commit(SignalComplete(Store), Event("playbackFinished", 0, 0))
  /\ UNCHANGED <<mounted, capState, capWaiting, now, mode>>

Next ==
  \/ Mount
  \/ WelcomeEffect
  \/ DeviceChange
  \/ StreamerOpen
  \/ \E f \in Fragments, is_final \in BOOLEAN : WsMessage(f, is_final)
  \/ SilenceTimerFire
  \/ \E a \in Answers : InteractiveSubmit(a)
  \/ \E r \in 1..MaxReqs, raw \in AiMessages : Respond(r, raw)
  \/ \E r \in 1..MaxReqs : AbortSettle(r)
  \/ PlaybackFinished

Spec == Init /\ [][Next]_vars

\* ----------------------------------- the page with a synthesis that finishes
\* the playback of the speak() call in progress runs to its end
PlaybackCompletes ==
  /\ spIsSpeaking
  /\ PlaybackFinished

NextPlayback ==
  \/ Mount
  \/ WelcomeEffect
  \/ DeviceChange
  \/ StreamerOpen
  \/ \E f \in Fragments, is_final \in BOOLEAN : WsMessage(f, is_final)
  \/ SilenceTimerFire
  \/ \E a \in Answers : InteractiveSubmit(a)
  \/ \E r \in 1..MaxReqs, raw \in AiMessages : Respond(r, raw)
  \/ \E r \in 1..MaxReqs : AbortSettle(r)
  \/ PlaybackCompletes

\* the synthesis service delivers its audio and the audio plays to its end
SpecPlayback == Init /\ [][NextPlayback]_vars /\ WF_vars(PlaybackCompletes)

\* -------------------------------------------------- the player in detail
Texts == { <<"a", ".">>, <<"b", ".", " ", "c">> }

\* a chunk is scheduled at the audio clock's time, whatever the cursor says
nextTimeNow(currentTime, cursor) == currentTime

\* Math.max(now, playbackTimeRef.current)
nextTime(currentTime, cursor) == Max(currentTime, cursor)

\* playPcmChunk for a chunk of duration d; c and k, the speak() call and the
\* sentence the chunk belongs to, are known to the model only
playPcmChunk(s, c, k, d) ==
  IF ~s.audioCtx THEN s
  ELSE LET start == nextTime(now, s.playbackTime)
       IN  [s EXCEPT
              !.sources = Append(@, [conn |-> c, idx |-> k, dur |-> d,
                                     start |-> start, stopped |-> FALSE,
                                     ended |-> FALSE, old |-> FALSE]),
              !.playingSources = @ \cup {Len(s.sources) + 1},
              !.playbackTime = start + d]

\* what is kept of a source that has ended and whose schedule was reset
Forgotten ==
  [conn |-> 0, idx |-> 0, dur |-> 0, start |-> 0, stopped |-> TRUE,
   ended |-> TRUE, old |-> TRUE]

\* source.onended
onended(s, i) ==
  LET s1 == [s EXCEPT !.playingSources = @ \ {i},
                      !.sources[i] = IF @.old THEN Forgotten
                                     ELSE [@ EXCEPT !.ended = TRUE]]
  IN  IF s1.playingSources = {}
      THEN [s1 EXCEPT !.timers = Append(@, [due |-> now + pauseDurationMs,
                                            conn |-> s.sources[i].conn])]
      ELSE s1

\* ws.onopen: the first sentence, or all of them, are sent
onopen(s, c) ==
  [s EXCEPT !.conns[c].rs = "OPEN",
            !.conns[c].sent = IF s.conns[c].mode = "first" THEN 1
                              ELSE Len(s.conns[c].sentences)]

\* ws.onclose, with the isSpeaking of the render that called speakSentences
onclose(s, c, seenSpeaking) ==
  LET s1 == [s EXCEPT !.conns[c].rs = "CLOSED"]
  IN  IF seenSpeaking /\ s.playingSources = {} THEN SignalComplete(s1) ELSE s1

\* ws.onerror
onerror(s, c) == SignalComplete([s EXCEPT !.conns[c].rs = "CLOSED"])

\* the sentences whose audio speak() call c has asked for
Expected(cs, c) == 1..cs[c].sent

\* every chunk that call c asked for has arrived and has finished playing
PlayedOut(s, c) ==
  /\ s.conns[c].sent > 0
  /\ s.conns[c].delivered = Expected(s.conns, c)
  /\ \A i \in DOMAIN s.sources :
       s.sources[i].conn = c => s.sources[i].ended /\ ~s.sources[i].stopped

\* the timeout set by onended
timeout(s, t) ==
  LET c == s.timers[t].conn
      s1 == [s EXCEPT !.timers = SubSeq(@, 1, t - 1) \o SubSeq(@, t + 1, Len(@)),
                      !.conns[c].completions = @ + 1,
                      !.conns[c].early = @ \/ ~PlayedOut(s, c)]
  IN  SignalComplete(s1)

InitPlayer ==
  /\ InitCommon
  /\ currentUtterance = <<>>
  /\ mounted = TRUE
  /\ textToSpeak = <<>>
  /\ mode = "full"

\* the parent hands over a text and raises the trigger
SetText(txt) ==
  /\ Len(conns) < MaxConns
  /\ Commit([transitionToState(Store, SPEAKING) EXCEPT !.textToSpeak = txt],
            Event("setText", 0, 0))
  /\ UNCHANGED <<mounted, capState, capWaiting, now, mode>>

\* the parent calls stop() through the handle, which it does when its own
\* isSpeaking flag is set
Stop ==
  /\ isSpeakingRef
  /\ Commit(stopPlayback(Store), Event("stop", 0, 0))
  /\ UNCHANGED <<mounted, capState, capWaiting, now, mode>>

WsOpen(c) ==
  /\ c \in DOMAIN conns
  /\ conns[c].rs = "CONNECTING"
  /\ Commit(onopen(Store, c), Event("wsOpen", 0, c))
  /\ UNCHANGED <<mounted, capState, capWaiting, now, mode>>

\* a chunk of sentence k, d ticks long, arrives on connection c
ChunkArrive(c, k, d) ==
  /\ c \in DOMAIN conns
  /\ conns[c].rs = "OPEN"
  /\ Len(sources) < MaxChunks
  /\ k \in Expected(conns, c) \ conns[c].delivered
  /\ Commit(playPcmChunk([Store EXCEPT !.conns[c].delivered = @ \cup {k}], c, k, d),
            Event("chunk", 0, c))
  /\ UNCHANGED <<mounted, capState, capWaiting, now, mode>>

\* an ended event or a timeout that is due and not yet handled
Due ==
  \/ \E i \in DOMAIN sources :
       /\ ~sources[i].ended
       /\ sources[i].stopped \/ now >= sources[i].start + sources[i].dur
  \/ \E t \in DOMAIN timers : now >= timers[t].due

\* the audio clock advances by one tick, which is long against the time the
\* event loop takes to run the handlers that are due
Tick ==
  /\ now < MaxTime
  /\ ~Due
  /\ now' = now + 1
  /\ Commit(Store, Event("tick", 0, 0))
  /\ UNCHANGED <<mounted, capState, capWaiting, mode>>

\* the ended event of source i: it has played to its end or was stopped
SourceEnded(i) ==
  /\ i \in DOMAIN sources
  /\ ~sources[i].ended
  /\ sources[i].stopped \/ now >= sources[i].start + sources[i].dur
  /\ Commit(onended(Store, i), Event("ended", 0, sources[i].conn))
  /\ UNCHANGED <<mounted, capState, capWaiting, now, mode>>

TimerFire(t) ==
  /\ t \in DOMAIN timers
  /\ now >= timers[t].due
  /\ Commit(timeout(Store, t), Event("timeout", 0, timers[t].conn))
  /\ UNCHANGED <<mounted, capState, capWaiting, now, mode>>

WsError(c) ==
  /\ c \in DOMAIN conns
  /\ conns[c].rs \in {"CONNECTING", "OPEN"}
  /\ Commit(onerror(Store, c), Event("wsError", 0, c))
  /\ UNCHANGED <<mounted, capState, capWaiting, now, mode>>

WsClosed(c) ==
  /\ c \in DOMAIN conns
  /\ conns[c].rs \in {"OPEN", "CLOSING"}
  /\ Commit(onclose(Store, c, FALSE), Event("wsClosed", 0, c))
  /\ UNCHANGED <<mounted, capState, capWaiting, now, mode>>

NextPlayer ==
  \/ \E txt \in Texts : SetText(txt)
  \/ Stop
  \/ \E c \in 1..MaxConns : WsOpen(c)
  \/ \E c \in 1..MaxConns, k \in 1..2, d \in 1..MaxDur : ChunkArrive(c, k, d)
  \/ Tick
  \/ \E i \in 1..MaxChunks : SourceEnded(i)
  \/ \E t \in 1..MaxChunks : TimerFire(t)
  \/ \E c \in 1..MaxConns : WsError(c)
  \/ \E c \in 1..MaxConns : WsClosed(c)

SpecPlayer == InitPlayer /\ [][NextPlayer]_vars

\* ------------------------------------------ the player handed any text
\* the texts of the player run, the empty text and a text of blanks only
SpeakTexts == Texts \cup { <<>>, <<" ">> }

NextSpeak ==
  \/ \E txt \in SpeakTexts : SetText(txt)
  \/ Stop
  \/ \E c \in 1..MaxConns : WsOpen(c)
  \/ \E c \in 1..MaxConns : WsError(c)
  \/ \E c \in 1..MaxConns : WsClosed(c)

SpecSpeak == InitPlayer /\ [][NextSpeak]_vars

\* ------------------------------------------------- the recorder worklet
\* a / b for b > 0, rounded to the nearest integer, a tie to the even one
RoundDiv(a, b) ==
  LET q == a \div b
      r == a % b
  IN  IF 2 * r < b THEN q
      ELSE IF 2 * r > b THEN q + 1
      ELSE IF q % 2 = 0 THEN q ELSE q + 1

\* a gain of 1: the estimate follows the last block
kalmanGainOne(Pp) == GainUnit

\* K = Pp / (Pp + this.R)
kalmanGain(Pp) == RoundDiv(Pp * GainUnit, Pp + R)

\* silenceThreshold and speechThreshold as process() computes them
silenceThreshold(nf) == RoundDiv(nf * silenceMultiplier, Tenths)
speechThreshold(nf) == RoundDiv(nf * speechMultiplier, Tenths)

\* an update that subtracts the correction
processAway(nf, p, rms) ==
  LET Pp == p + Q
      K == kalmanGain(Pp)
  IN  [noiseFloor |-> nf - RoundDiv(K * (rms - nf), GainUnit),
       P |-> RoundDiv((GainUnit - K) * Pp, GainUnit)]

\* process() on a block of RMS rms: the new noiseFloor and P
process(nf, p, rms) ==
  LET Pp == p + Q
      K == kalmanGain(Pp)
  IN  [noiseFloor |-> nf + RoundDiv(K * (rms - nf), GainUnit),
       P |-> RoundDiv((GainUnit - K) * Pp, GainUnit)]

\* the RMS values of the blocks: digital silence, the initial floor, speech
RmsValues == { 0, 100, 1000 }

\* the worklet processes a block of RMS rms
Process(rms) ==
  /\ noiseFloor' = process(noiseFloor, P, rms).noiseFloor
  /\ P' = process(noiseFloor, P, rms).P
  /\ currentRms' = rms
  /\ ev' = Event("process", 0, 0)
  /\ log' = <<>>
  /\ UNCHANGED <<orchVars, pageVars, streamerVars, playerVars>>

InitRecorder ==
  /\ InitCommon
  /\ currentUtterance = <<>>
  /\ mounted = FALSE
  /\ textToSpeak = <<>>
  /\ mode = "full"

NextRecorder == \E rms \in RmsValues : Process(rms)

SpecRecorder == InitRecorder /\ [][NextRecorder]_vars

\* every block has the RMS of the first one
ProcessConstant(rms) ==
  /\ currentRms \in {-1, rms}
  /\ Process(rms)

NextConstant == \E rms \in RmsValues : ProcessConstant(rms)

\* blocks keep arriving
SpecConstant == InitRecorder /\ [][NextConstant]_vars /\ WF_vars(NextConstant)

\* ------------------------------------------- the hook under its own client
\* What a client of useConversationOrchestrator may call, in any order, with
\* the callbacks of the current render.
Contents == { <<"y">>, <<" ">> }

InitHook ==
  /\ InitCommon
  /\ currentUtterance = <<>>
  /\ mounted = TRUE
  /\ textToSpeak = <<>>
  /\ mode = "full"

HookTransition(st) ==
  /\ Live
  /\ Commit(transitionToState(Store, st),
            [Event("transition", 0, 0) EXCEPT !.inp = st])
  /\ UNCHANGED <<mounted, capState, capWaiting, now, mode>>

HookStartListening ==
  /\ Live
  /\ Commit(startListening(Store), Event("startListening", 0, 0))
  /\ UNCHANGED <<mounted, capState, capWaiting, now, mode>>

HookStartCalibration ==
  /\ Live
  /\ Commit(startCalibration(Store), Event("startCalibration", 0, 0))
  /\ UNCHANGED <<mounted, capState, capWaiting, now, mode>>

HookCompleteSpeaking ==
  /\ Live
  /\ Commit(completeSpeaking(Store), Event("completeSpeaking", 0, 0))
  /\ UNCHANGED <<mounted, capState, capWaiting, now, mode>>

HookSend(content) ==
  /\ Live
  /\ Len(requests) < MaxReqs
  /\ Commit(sendChatMessage(Store, content, isWaitingForResponse),
            Event("send", 0, 0))
  /\ UNCHANGED <<mounted, capState, capWaiting, now, mode>>

HookReset ==
  /\ Live
  /\ Commit(resetConversation(Store), Event("reset", 0, 0))
  /\ UNCHANGED <<mounted, capState, capWaiting, now, mode>>

HookCleanup ==
  /\ Live
  /\ Commit(cleanupOrchestrator(Store), Event("cleanup", 0, 0))
  /\ UNCHANGED <<mounted, capState, capWaiting, now, mode>>

NextHook ==
  \/ \E st \in ConversationState : HookTransition(st)
  \/ HookStartListening
  \/ HookStartCalibration
  \/ HookCompleteSpeaking
  \/ \E content \in Contents : HookSend(content)
  \/ HookReset
  \/ HookCleanup
  \/ \E r \in 1..MaxReqs, raw \in AiMessages : Respond(r, raw)
  \/ \E r \in 1..MaxReqs : AbortSettle(r)

SpecHook == InitHook /\ [][NextHook]_vars

\* ------------------------------------------------- the streamer with a clock
\* one tick of time: the pending timer comes nearer, the last frame is older
SilenceTick ==
  /\ Live
  /\ silenceTimer # 0
  /\ silenceTimer > 0 \/ sinceFragment < SILENCE_IDLE_MS
  /\ Commit([Store EXCEPT !.silenceTimer = IF @ > 0 THEN @ - 1 ELSE @,
                          !.sinceFragment = Min(@ + 1, SILENCE_IDLE_MS)],
            Event("tick", 0, 0))
  /\ UNCHANGED <<mounted, capState, capWaiting, now, mode>>

\* the silence timer fires when its interval has run out
SilenceTimerDue ==
  /\ Live
  /\ silenceTimer = 0
  /\ Len(requests) < MaxReqs
  /\ Commit(finishUtterance(clearSilenceTimer(Store), capState, capWaiting),
            Event("silenceTimer", 0, 0))
  /\ UNCHANGED <<mounted, capState, capWaiting, now, mode>>

NextStreamer ==
  \/ Mount
  \/ DeviceChange
  \/ StreamerOpen
  \/ \E f \in Fragments, is_final \in BOOLEAN : WsMessage(f, is_final)
  \/ SilenceTick
  \/ SilenceTimerDue
  \/ \E r \in 1..MaxReqs, raw \in AiMessages : Respond(r, raw)
  \/ \E r \in 1..MaxReqs : AbortSettle(r)
  \/ PlaybackFinished

SpecStreamer == Init /\ [][NextStreamer]_vars

\* ------------------------------------- fragments and the page's ref effect
\* a frame is handled and rendered, and the next event comes before the
\* effects of that render
WsMessageBeforeEffects(fragment) ==
  /\ Live
  /\ wsState = "open"
  /\ Len(intelligentStitch(currentUtteranceRef, fragment)) <= MaxUtterance
  /\ CommitBeforeEffects(onmessage(Store, fragment, capState, capWaiting),
                         Event("wsMessage", 0, 0))
  /\ UNCHANGED <<mounted, capState, capWaiting, now, mode>>

\* the pending effects run
FlushEffects ==
  /\ Live
  /\ currentUtteranceRef # currentUtterance
  /\ Commit(Store, Event("effects", 0, 0))
  /\ UNCHANGED <<mounted, capState, capWaiting, now, mode>>

NextUtterance ==
  \/ Mount
  \/ StreamerOpen
  \/ \E f \in Fragments, is_final \in BOOLEAN : WsMessage(f, is_final)
  \/ \E f \in Fragments : WsMessageBeforeEffects(f)
  \/ FlushEffects
  \/ SilenceTimerFire
  \/ \E r \in 1..MaxReqs, raw \in AiMessages : Respond(r, raw)
  \/ \E r \in 1..MaxReqs : AbortSettle(r)
  \/ PlaybackFinished

SpecUtterance == Init /\ [][NextUtterance]_vars

\* ------------------------------------------------------ the stitch functions
\* Arguments of a stitch: empty, blank, one word in several spellings, padded
\* and two-word texts.
StitchInputs ==
  { <<>>, <<" ">>, <<"a">>, <<"A", ".">>, <<"a", "!">>, <<"a", ".", "b">>,
    <<"a", "b">>, <<"c">>, <<" ", "a">>, <<"c", " ", "a">>,
    <<"a", " ", "b">>, <<"c", " ", " ", "a">> }

InitStitch ==
  /\ InitCommon
  /\ currentUtterance \in StitchInputs
  /\ mounted = TRUE
  /\ textToSpeak = <<>>
  /\ mode = "full"

\* intelligentStitch(base, fragment), the result being the next base
Stitch(fragment) ==
  /\ Len(intelligentStitch(currentUtterance, fragment)) <= MaxStitch
  /\ Commit([Store EXCEPT
               !.currentUtterance = intelligentStitch(currentUtterance, fragment),
               !.lastTranscript = fragment],
            Event("intelligentStitch", 0, 0))
  /\ UNCHANGED <<mounted, capState, capWaiting, now, mode>>

SmartStitch(fragment) ==
  /\ Len(smartStitch(currentUtterance, fragment)) <= MaxStitch
  /\ Commit([Store EXCEPT
               !.currentUtterance = smartStitch(currentUtterance, fragment),
               !.lastTranscript = fragment],
            Event("smartStitch", 0, 0))
  /\ UNCHANGED <<mounted, capState, capWaiting, now, mode>>

\* the silence timer fires after the fragment stitched last: finishUtterance
\* hands the cleaned fragment over as the final transcript
Redeliver ==
  /\ ev.op = "intelligentStitch"
  /\ Len(requests) < MaxSubmits
  /\ Commit(finishUtterance(Store, capState, capWaiting),
            Event("redeliver", 0, 0))
  /\ UNCHANGED <<mounted, capState, capWaiting, now, mode>>

NextStitch ==
  \/ \E f \in StitchInputs : Stitch(f)
  \/ \E f \in StitchInputs : SmartStitch(f)
  \/ Redeliver

SpecStitch == InitStitch /\ [][NextStitch]_vars

\* ------------------------------------------ LiveAudioStreamer, object by object
\* A streamer x: isStreaming and isMuted are its fields; pending counts its
\* startStreaming calls that await getUserMedia; pipes are the audio pipelines
\* its startStreaming calls have built, each a MediaStream (mic), an
\* AudioContext with its worklet (graph) and a WebSocket (ws) with the frames
\* sent on it; cur is the pipeline that the fields mediaStream, audioContext,
\* workletNode and ws refer to, 0 while they are undefined. starts counts the
\* accepted startStreaming calls; stopped and reported tell that stopStreaming
\* was called, and onConnectionError made, after the last of them. timer
\* tells that the silence timer is pending, lastTranscript is the field.
NewStreamer ==
  [isStreaming |-> FALSE, isMuted |-> FALSE, pending |-> 0, starts |-> 0,
   stopped |-> FALSE, reported |-> FALSE, cur |-> 0, pipes |-> <<>>,
   timer |-> FALSE, lastTranscript |-> <<>>]

NewPipe == [mic |-> "live", graph |-> "open", ws |-> "connecting", sent |-> <<>>]

\* WebSocket.close(): a connecting socket fails (error and close events
\* follow), an open one starts the closing handshake, else nothing
closeSocket(ws) ==
  CASE ws = "connecting" -> "failing"
    [] ws = "open" -> "closing"
    [] OTHER -> ws

\* cleanup of the streamer: what its fields refer to is closed and stopped
cleanup(x) ==
  [x EXCEPT !.isStreaming = FALSE,
            !.timer = FALSE,
            !.pipes = IF x.cur = 0 THEN @
                      ELSE [@ EXCEPT ![x.cur] =
                              [@ EXCEPT !.mic = "stopped", !.graph = "closed",
                                        !.ws = closeSocket(@)]]]

\* startStreaming up to its first await
startStreaming(x) ==
  IF x.isStreaming THEN x
  ELSE [x EXCEPT !.isStreaming = TRUE, !.pending = @ + 1, !.starts = @ + 1,
                 !.stopped = FALSE, !.reported = FALSE]

\* startStreaming after getUserMedia has resolved: the pipeline is built and
\* the socket created, whatever isStreaming is by then
audioReady(x) ==
  [x EXCEPT !.pending = @ - 1,
            !.pipes = Append(@, NewPipe),
            !.cur = Len(x.pipes) + 1]

\* this.onConnectionError(...)
onConnectionError(x) == [x EXCEPT !.reported = TRUE]

\* a catch block that leaves the acquisition pending, to be tried again
audioFailedRetry(x) == cleanup(onConnectionError(x))

\* startStreaming after getUserMedia has rejected: the catch block
audioFailed(x) == cleanup(onConnectionError([x EXCEPT !.pending = @ - 1]))

\* this.ws.send(frame), on the socket the field refers to
wsSend(x, frame) ==
  [x EXCEPT !.pipes[x.cur].sent = Append(@, frame)]

\* an onopen that sends no configuration
onopenSilent(x, p) == [x EXCEPT !.pipes[p].ws = "open"]

\* ws.onopen of the socket of pipeline p
streamerOnopen(x, p) ==
  LET x1 == [x EXCEPT !.pipes[p].ws = "open"]
  IN  IF x1.pipes[x1.cur].ws = "open" THEN wsSend(x1, "config") ELSE x1

\* workletNode.port.onmessage with a block of samples
portOnmessage(x) ==
  IF x.cur # 0 /\ x.pipes[x.cur].ws = "open" /\ ~x.isMuted
  THEN wsSend(x, "pcm")
  ELSE x

\* ws.onmessage of a socket of streamer i, with the callbacks the streamer was
\* constructed with
channelOnmessage(s, i, fragment) ==
  LET t == Trim(fragment)
      s1 == [s EXCEPT !.streamers[i].lastTranscript = t]
  IN  IF t # <<>>
      THEN [handleTranscriptUpdate(Logged(s1, "onTranscriptUpdate:interim"),
                                   t, FALSE, capState, capWaiting)
              EXCEPT !.streamers[i].timer = TRUE]
      ELSE s1

\* the callback of the silence timer of streamer i
channelTimeout(s, i) ==
  LET cleanedTxt == cleanTranscription(s.streamers[i].lastTranscript)
      s1 == [s EXCEPT !.streamers[i].timer = FALSE]
      s2 == IF cleanedTxt # <<>>
            THEN handleTranscriptUpdate(Logged(s1, "onTranscriptUpdate:final"),
                                        cleanedTxt, TRUE, capState, capWaiting)
            ELSE s1
  IN  [s2 EXCEPT !.streamers[i].lastTranscript = <<>>]

\* the condition under which ws.onclose reports
closeReported(wasClean, code) == ~wasClean /\ code # 1000

\* the close events a socket can deliver in state ws
CloseEvents(ws) ==
  CASE ws = "open" -> { <<TRUE, 1000>>, <<FALSE, 1006>>, <<FALSE, 1000>> }
    [] ws = "closing" -> { <<TRUE, 1005>>, <<FALSE, 1006>> }
    [] ws = "failed" -> { <<FALSE, 1006>> }
    [] OTHER -> {}

\* the startStreaming calls accepted so far, over all streamers
RECURSIVE TotalStarts(_)
TotalStarts(xs) ==
  IF xs = <<>> THEN 0 ELSE Head(xs).starts + TotalStarts(Tail(xs))

InitChannel ==
  /\ InitCommon
  /\ currentUtterance = <<>>
  /\ mounted = TRUE
  /\ textToSpeak = <<>>
  /\ mode = "full"

\* the page's handleStart: the streamer of streamerRef is stopped, a new one
\* is constructed and started
ChannelHandleStart ==
  /\ Len(streamers) < MaxStreamers
  /\ TotalStarts(streamers) < MaxStarts
  /\ LET old == IF streamerRef = 0 THEN streamers
                ELSE [streamers EXCEPT ![streamerRef] =
                        [cleanup(@) EXCEPT !.stopped = TRUE]]
     IN  Commit([clearSilenceTimer(Store) EXCEPT
                   !.streamers = Append(old, startStreaming(NewStreamer)),
                   !.streamerRef = Len(streamers) + 1],
                Event("handleStart", Len(streamers) + 1, 0))
  /\ UNCHANGED <<mounted, capState, capWaiting, now, mode>>

\* the caller calls startStreaming() on the streamer it holds
CallStartStreaming ==
  /\ streamerRef # 0
  /\ TotalStarts(streamers) < MaxStarts
  /\ Commit([Store EXCEPT !.streamers[streamerRef] = startStreaming(@)],
            Event("startStreaming", streamerRef, 0))
  /\ UNCHANGED <<mounted, capState, capWaiting, now, mode>>

\* the caller calls stopStreaming() on the streamer it holds
CallStopStreaming ==
  /\ streamerRef # 0
  /\ Commit([clearSilenceTimer(Store) EXCEPT
               !.streamers[streamerRef] = [cleanup(@) EXCEPT !.stopped = TRUE]],
            Event("stopStreaming", streamerRef, 0))
  /\ UNCHANGED <<mounted, capState, capWaiting, now, mode>>

\* handleMicToggle: setMuted on the streamer the page holds
SetMuted(muted) ==
  /\ streamerRef # 0
  /\ streamers[streamerRef].isMuted # muted
  /\ Commit([Store EXCEPT !.streamers[streamerRef].isMuted = muted],
            Event("setMuted", streamerRef, 0))
  /\ UNCHANGED <<mounted, capState, capWaiting, now, mode>>

\* getUserMedia resolves for streamer i
MicGranted(i) ==
  /\ i \in DOMAIN streamers
  /\ streamers[i].pending > 0
  /\ Commit([Store EXCEPT !.streamers[i] = audioReady(@)],
            Event("micGranted", i, Len(streamers[i].pipes) + 1))
  /\ UNCHANGED <<mounted, capState, capWaiting, now, mode>>

\* getUserMedia rejects for streamer i
MicRefused(i) ==
  /\ i \in DOMAIN streamers
  /\ streamers[i].pending > 0
  /\ Commit([Logged(Store, "onConnectionError")
               EXCEPT !.streamers[i] = audioFailed(@)],
            Event("micRefused", i, 0))
  /\ UNCHANGED <<mounted, capState, capWaiting, now, mode>>

\* the socket of pipeline p of streamer i opens: onConnectionOpen (the page
\* calls startListening), then the configuration message
SocketOpens(i, p) ==
  /\ i \in DOMAIN streamers /\ p \in DOMAIN streamers[i].pipes
  /\ streamers[i].pipes[p].ws = "connecting"
  /\ Commit([startListening(Logged(Store, "onConnectionOpen"))
               EXCEPT !.streamers[i] = streamerOnopen(@, p)],
            Event("socketOpen", i, p))
  /\ UNCHANGED <<mounted, capState, capWaiting, now, mode>>

\* a worklet of streamer i delivers a block of samples
WorkletPcm(i, q) ==
  /\ i \in DOMAIN streamers /\ q \in DOMAIN streamers[i].pipes
  /\ streamers[i].pipes[q].graph = "open"
  /\ streamers[i].cur # 0
  /\ Len(streamers[i].pipes[streamers[i].cur].sent) < MaxFrames
  /\ Commit([Store EXCEPT !.streamers[i] = portOnmessage(@)],
            Event("pcm", i, q))
  /\ UNCHANGED <<mounted, capState, capWaiting, now, mode>>

\* ws.onerror: the connection fails, or was closed while connecting
SocketErrors(i, p) ==
  /\ i \in DOMAIN streamers /\ p \in DOMAIN streamers[i].pipes
  /\ streamers[i].pipes[p].ws \in {"connecting", "open", "failing"}
  /\ Commit([Logged(Store, "onConnectionError")
               EXCEPT !.streamers[i] =
                        cleanup(onConnectionError([@ EXCEPT !.pipes[p].ws = "failed"]))],
            Event("socketError", i, p))
  /\ UNCHANGED <<mounted, capState, capWaiting, now, mode>>

\* ws.onclose with the event's wasClean and code
SocketCloses(i, p, wasClean, code) ==
  /\ i \in DOMAIN streamers /\ p \in DOMAIN streamers[i].pipes
  /\ <<wasClean, code>> \in CloseEvents(streamers[i].pipes[p].ws)
  /\ LET s == IF closeReported(wasClean, code)
              THEN Logged(Store, "onConnectionError") ELSE Store
         x == [streamers[i] EXCEPT !.pipes[p].ws = "closed"]
         x1 == IF closeReported(wasClean, code) THEN onConnectionError(x) ELSE x
     IN  Commit([s EXCEPT !.streamers[i] = cleanup(x1)],
                [Event("socketClose", i, p)
                   EXCEPT !.inp = IF wasClean THEN "clean" ELSE "unclean"])
  /\ UNCHANGED <<mounted, capState, capWaiting, now, mode>>

\* a frame arrives on the socket of pipeline p of streamer i; a socket
\* delivers message events only while it is open
SocketMessage(i, p, fragment) ==
  /\ i \in DOMAIN streamers /\ p \in DOMAIN streamers[i].pipes
  /\ streamers[i].pipes[p].ws = "open"
  /\ Len(intelligentStitch(currentUtteranceRef, fragment)) <= MaxUtterance
  /\ Commit(channelOnmessage(Store, i, fragment), Event("socketMessage", i, p))
  /\ UNCHANGED <<mounted, capState, capWaiting, now, mode>>

\* the silence timer of streamer i fires
ChannelTimerFires(i) ==
  /\ i \in DOMAIN streamers
  /\ streamers[i].timer
  /\ Len(requests) < MaxReqs
  /\ Commit(channelTimeout(Store, i), Event("channelTimer", i, 0))
  /\ UNCHANGED <<mounted, capState, capWaiting, now, mode>>

NextChannel ==
  \/ ChannelHandleStart
  \/ CallStartStreaming
  \/ CallStopStreaming
  \/ \E muted \in BOOLEAN : SetMuted(muted)
  \/ \E i \in 1..MaxStreamers : MicGranted(i)
  \/ \E i \in 1..MaxStreamers : MicRefused(i)
  \/ \E i \in 1..MaxStreamers, p \in 1..MaxStarts : SocketOpens(i, p)
  \/ \E i \in 1..MaxStreamers, q \in 1..MaxStarts : WorkletPcm(i, q)
  \/ \E i \in 1..MaxStreamers, p \in 1..MaxStarts : SocketErrors(i, p)
  \/ \E i \in 1..MaxStreamers, p \in 1..MaxStarts :
       \E wasClean \in BOOLEAN, code \in {1000, 1005, 1006} :
         SocketCloses(i, p, wasClean, code)
  \/ \E i \in 1..MaxStreamers, p \in 1..MaxStarts, f \in Fragments :
       SocketMessage(i, p, f)
  \/ \E i \in 1..MaxStreamers : ChannelTimerFires(i)

SpecChannel == InitChannel /\ [][NextChannel]_vars

\* ------------------------------------------------------------------ claims
Called(l, what) == \E i \in DOMAIN l : l[i].call = what

SendMessageCalled(l) ==
  Called(l, "sendMessage:ignored") \/ Called(l, "sendMessage:issued")
    \/ Called(l, "sendMessage:empty")

\* C1: while a dialogue request is in flight and the orchestrator is THINKING,
\* a further submission through sendMessage appends no message, issues no
\* request and leaves the conversation state unchanged.
C1_SubmissionIgnoredWhileInFlight ==
  [][(state = THINKING /\ InFlight(requests) # {} /\ SendMessageCalled(log'))
       => (messages' = messages /\ requests' = requests /\ state' = state)]_vars

\* C2: once a newer request has been issued, the settling of an older request
\* appends no message, sets no interactive task and causes no state transition.
C2_OldResponseNeverApplied ==
  [][((ev'.op = "response" \/ ev'.op = "abortSettle") /\ ev'.req < Len(requests))
       => (messages' = messages
           /\ currentInteractiveTask' = currentInteractiveTask
           /\ state' = state)]_vars

\* an older request has settled after a newer one was issued and answered
C2_Witness ==
  /\ ev.op = "abortSettle"
  /\ ev.req < Len(requests)
  /\ requests[Len(requests)].settled
  /\ ~requests[Len(requests)].aborted

\* C3: at every instant at most one dialogue request is issued and neither
\* settled nor aborted.
C3_AtMostOneInFlight == Cardinality(InFlight(requests)) <= 1

\* a superseded request that has not settled yet next to the one in flight
C3_Witness ==
  \E r1, r2 \in DOMAIN requests :
    /\ r1 < r2
    /\ requests[r1].aborted /\ ~requests[r1].settled
    /\ r2 \in InFlight(requests)

\* C4: from LISTENING a finalized non-empty utterance moves the state to
\* THINKING; a normal response then appends exactly one ai message and moves
\* the state to SPEAKING; the end of the playback moves the state to LISTENING.
C4_EndToEndTurn ==
  [][/\ (ev'.op = "silenceTimer" /\ state = LISTENING
           /\ SendMessageCalled(log') /\ ~Called(log', "sendMessage:empty"))
          => state' = THINKING
     /\ (ev'.op = "response" /\ state = THINKING /\ ev'.res = "normal")
          => (/\ Len(messages') = Len(messages) + 1
              /\ messages'[Len(messages')].role = "ai"
              /\ state' = SPEAKING)
     /\ (ev'.op = "playbackFinished" /\ state = SPEAKING)
          => state' = LISTENING]_vars

\* C5: when a transcript fragment arrives while the state is SPEAKING, stop()
\* of the player is invoked and the state after the barge-in is LISTENING.
C5_BargeIn ==
  [][(ev'.op = "wsMessage" /\ state = SPEAKING /\ lastTranscript' # <<>>)
       => (Called(log', "stop") /\ state' = LISTENING)]_vars

\* C6: a speak() call that stop() has not cancelled gets its completion from
\* the end of playback at most once, and only when every chunk it asked for
\* has arrived and has finished playing.
C6_CompletionOnceAfterLastChunk ==
  \A c \in DOMAIN conns :
    conns[c].cancelled = "no" => (conns[c].completions <= 1 /\ ~conns[c].early)

\* C7: the timeout of a speak() call that stop() cancelled while the player
\* was speaking fires neither onSpeakingStateChange(false) nor onComplete.
C7_NoCompletionAfterStop ==
  [][(ev'.op = "timeout" /\ conns[ev'.ctx].cancelled = "speaking")
       => (~Called(log', "ssc:false") /\ ~Called(log', "onComplete"))]_vars

\* C8: after stop() no sentence of a cancelled speak() call is sent and no
\* chunk of it is scheduled.
C8_NothingAfterStop ==
  [][((ev'.op = "wsOpen" \/ ev'.op = "chunk") /\ conns[ev'.ctx].cancelled # "no")
       => (sources' = sources /\ conns'[ev'.ctx].sent = conns[ev'.ctx].sent)]_vars

\* C9: the chunks of one speak() call lie on the schedule in the order of
\* their sentences: a chunk of an earlier sentence ends before a chunk of a
\* later sentence starts, whatever order they arrived in.
C9_PlacedBySentenceIndex ==
  \A i, j \in DOMAIN sources :
    (/\ ~sources[i].old /\ ~sources[j].old
     /\ sources[i].conn = sources[j].conn
     /\ sources[i].idx < sources[j].idx)
      => sources[i].start + sources[i].dur <= sources[j].start

\* the chunks scheduled since the last stop() do not overlap, in the order
\* they were scheduled, and the cursor is the end of the last of them
NonOverlap ==
  /\ \A i, j \in DOMAIN sources :
       (i < j /\ ~sources[i].old /\ ~sources[j].old)
         => sources[i].start + sources[i].dur <= sources[j].start
  /\ \A i \in DOMAIN sources :
       ~sources[i].old => sources[i].start + sources[i].dur <= playbackTime

\* C10: a chunk is scheduled at max(now, cursor) and the cursor then advances
\* by its duration; the chunks scheduled since the last stop() never overlap;
\* a chunk that arrives before the cursor starts at the end of the chunk
\* before it; and the cursor decreases only by stop().
C10_CursorSchedule ==
  [][/\ (ev'.op = "chunk" /\ Len(sources') = Len(sources) + 1)
          => LET n == sources'[Len(sources')]
             IN  /\ n.start = Max(now, playbackTime)
                 /\ playbackTime' = n.start + n.dur
                 /\ (sources # <<>> /\ ~sources[Len(sources)].old
                       /\ now <= sources[Len(sources)].start + sources[Len(sources)].dur)
                      => n.start = sources[Len(sources)].start + sources[Len(sources)].dur
     /\ NonOverlap'
     /\ ev'.op # "stop" => playbackTime' >= playbackTime]_vars

\* a chunk has arrived while the chunk before it was still to end, and starts
\* at that chunk's end
C10_Witness ==
  /\ ev.op = "chunk"
  /\ Len(sources) >= 2
  /\ LET n == sources[Len(sources)]
         p == sources[Len(sources) - 1]
     IN  /\ ~n.old /\ ~p.old
         /\ now < n.start
         /\ n.start = p.start + p.dur
         /\ playbackTime = n.start + n.dur

\* the (from, to) pairs of the transition table
TransitionTable ==
  { <<IDLE, LISTENING>>, <<IDLE, CALIBRATING>>, <<CALIBRATING, LISTENING>>,
    <<LISTENING, THINKING>>, <<THINKING, SPEAKING>>, <<THINKING, IDLE>>,
    <<SPEAKING, LISTENING>> }
    \cup { <<st, IDLE>> : st \in ConversationState \ {IDLE} }

\* C11: every change of the conversation state is a pair of the transition
\* table.
C11_TransitionsOfTheTable ==
  \A i \in DOMAIN log :
    log[i].call = "onStateChange" => <<log[i].from, log[i].to>> \in TransitionTable

\* C12: a failed dialogue call is surfaced through onError, leaves the state
\* IDLE, appends no message and returns an error result.
C12_BackendError ==
  [][(ev'.op = "response" /\ ev'.inp = "error")
       => (/\ Called(log', "onError")
           /\ state' = IDLE
           /\ messages' = messages
           /\ ev'.res = "error")]_vars

\* a request failed while the state was THINKING
C12_Witness ==
  /\ ev.op = "response" /\ ev.inp = "error"
  /\ state = IDLE
  /\ \E i \in DOMAIN log :
       log[i].call = "onStateChange" /\ log[i].from = THINKING /\ log[i].to = IDLE

\* C13: the settling of an aborted request calls no onError and changes no
\* state.
C13_SupersedeIsSilent ==
  [][ev'.op = "abortSettle" => (~Called(log', "onError") /\ state' = state)]_vars

\* a superseded request has settled while its successor is in flight
C13_Witness ==
  /\ ev.op = "abortSettle"
  /\ ev.req < Len(requests)
  /\ state = THINKING
  /\ Len(requests) \in InFlight(requests)

\* C15: an aiMessage that holds the sentinel ends the session: no message is
\* appended, no interactive task is set, the state is IDLE and not SPEAKING,
\* the result is terminated and the page leaves the interview.
C15_SentinelTerminates ==
  [][(ev'.op = "response" /\ ev'.inp = "sentinel")
       => (/\ messages' = messages
           /\ currentInteractiveTask' = currentInteractiveTask
           /\ isInteractiveQuestion' = isInteractiveQuestion
           /\ ~Called(log', "onInteractiveTask")
           /\ textToSpeak' = textToSpeak
           /\ state' = IDLE
           /\ ev'.res = "terminated"
           /\ navigated')]_vars

\* a response with the sentinel inside its text has ended the session
C15_Witness ==
  /\ ev.op = "response" /\ ev.inp = "sentinel" /\ ev.res = "terminated"
  /\ navigated
  /\ state = IDLE

\* C14: resetConversation leaves the state IDLE, the history empty, no
\* interactive task and isWaitingForResponse false, whatever the state before.
C14_Reset ==
  [][ev'.op = "reset"
       => (/\ state' = IDLE
           /\ messages' = <<>>
           /\ currentInteractiveTask' = "null"
           /\ ~isWaitingForResponse')]_vars

\* a reset out of THINKING, with a history and a request in flight
C14_Witness ==
  /\ ev.op = "reset"
  /\ InFlight(requests) # {}
  /\ \E i \in DOMAIN log : log[i].call = "onStateChange" /\ log[i].from = THINKING
  /\ messages = <<>>

\* the onStateChange calls of a step
StateChanges(l) == SelectSeq(l, LAMBDA e : e.call = "onStateChange")

\* C16: transitionToState to the current state changes nothing and calls no
\* onStateChange; every change of the state calls onStateChange once, with
\* the new state.
C16_TransitionNoOp ==
  [][LET ch == StateChanges(log')
     IN  /\ \A i \in DOMAIN ch : ch[i].from # ch[i].to
         /\ ch = <<>> => state' = state
         /\ ch # <<>> =>
              /\ ch[1].from = state
              /\ ch[Len(ch)].to = state'
              /\ \A i \in 1..(Len(ch) - 1) : ch[i].to = ch[i + 1].from
         /\ (ev'.op = "transition" /\ ev'.inp = state)
              => (ch = <<>> /\ state' = state)]_vars

\* transitionToState was called with the state the hook was already in
C16_Witness ==
  /\ ev.op = "transition"
  /\ ev.inp = state
  /\ state # IDLE
  /\ log = <<>>

IsPrefix(a, b) == Len(a) <= Len(b) /\ SubSeq(b, 1, Len(a)) = a

C19_FragmentResetsTimer ==
  [][/\ ev'.op = "wsMessage" => silenceTimer' = SILENCE_IDLE_MS
     /\ ev'.op = "silenceTimer" => sinceFragment >= SILENCE_IDLE_MS]_vars

\* C20: when the timer fires, the accumulated utterance is emitted once as
\* final if it is not empty, nothing is emitted if it is empty, and nothing
\* stays accumulated.
C20_FinalizationEmits ==
  [][ev'.op = "silenceTimer" =>
       LET acc == cleanTranscription(currentUtterance)
           finals == SelectSeq(log', LAMBDA e : e.call = "onTranscriptUpdate:final")
       IN  /\ acc # <<>> => Len(finals) = 1
           /\ acc = <<>> => finals = <<>>
           /\ lastTranscript' = <<>>
           /\ currentUtterance' = <<>>]_vars

\* C21: a fragment that the channel marks as final finalizes the utterance in
\* the step in which it arrives: the final transcript is emitted then, not
\* when the timer fires.
C21_FinalMarkFinalizes ==
  [][(ev'.op = "wsMessage" /\ ev'.inp = "is_final" /\ lastTranscript' # <<>>)
       => Called(log', "onTranscriptUpdate:final")]_vars

\* C22: every fragment is stitched onto the utterance as the fragments before
\* it left it, and the text submitted at finalization is that utterance
\* stitched with the final transcript.
C22_FragmentsInArrivalOrder ==
  [][/\ (ev'.op = "wsMessage" /\ lastTranscript' # <<>>)
          => currentUtterance' = intelligentStitch(currentUtterance, lastTranscript')
     /\ (ev'.op = "silenceTimer" /\ Called(log', "sendMessage:issued"))
          => requests'[Len(requests')].content =
               intelligentStitch(currentUtterance,
                                 cleanTranscription(lastTranscript))]_vars

\* the comparison the stitch is specified with: words are equal when they
\* agree after dropping punctuation at the end of the word and folding case
TerminalPunctuation == {".", ",", "?", "!"}

RECURSIVE StripTerminal(_)
StripTerminal(w) ==
  IF w # <<>> /\ w[Len(w)] \in TerminalPunctuation
  THEN StripTerminal(SubSeq(w, 1, Len(w) - 1))
  ELSE w

FoldWord(w) ==
  LET k == StripTerminal(w) IN [i \in 1..Len(k) |-> ToLowerCase(k[i])]

OverlapAsSpecified(baseWords, fragmentWords) ==
  LET fits(i) == \A k \in 1..i :
                   FoldWord(baseWords[Len(baseWords) - i + k]) = FoldWord(fragmentWords[k])
      cand == { i \in 0..Min(Len(baseWords), Len(fragmentWords)) : fits(i) }
  IN  CHOOSE i \in cand : \A j \in cand : j <= i

StitchAsSpecified(base, fragment) ==
  LET baseWords == SplitWs(base, <<>>, <<>>)
      fragmentWords == SplitWs(fragment, <<>>, <<>>)
      i == OverlapAsSpecified(baseWords, fragmentWords)
  IN  Trim(base \o <<" ">> \o JoinSp(SubSeq(fragmentWords, i + 1, Len(fragmentWords))))

\* C23: for a base and a fragment that are not empty, the stitch is the base,
\* a blank and the fragment's words after the largest overlap, the overlap
\* being found by comparing words without case and terminal punctuation.
C23_StitchOverlap ==
  [][(/\ ev'.op = "intelligentStitch"
      /\ Trim(currentUtterance) # <<>>
      /\ Trim(lastTranscript') # <<>>)
       => currentUtterance' =
            StitchAsSpecified(Trim(currentUtterance), Trim(lastTranscript'))]_vars

\* C24: stitching the empty fragment returns the base as it is, and stitching
\* onto the empty base returns the fragment as it is.
C24_StitchIdentity ==
  [][ev'.op \in {"intelligentStitch", "smartStitch"}
       => /\ lastTranscript' = <<>> => currentUtterance' = currentUtterance
          /\ currentUtterance = <<>> => currentUtterance' = lastTranscript']_vars

\* the pipelines of all streamers whose microphone stream is live
LiveMics ==
  { <<i, p>> \in (1..MaxStreamers) \X (1..MaxStarts) :
      /\ i \in DOMAIN streamers
      /\ p \in DOMAIN streamers[i].pipes
      /\ streamers[i].pipes[p].mic = "live" }

\* C25: at most one microphone stream is live at any instant.
C25_OneMicrophone == Cardinality(LiveMics) <= 1

\* streamer x holds a microphone, a processing graph or a socket
Holds(x) ==
  \E p \in DOMAIN x.pipes :
    \/ x.pipes[p].mic = "live"
    \/ x.pipes[p].graph = "open"
    \/ x.pipes[p].ws \in {"connecting", "open"}

\* C26: a streamer on which stopStreaming was called and which awaits nothing
\* holds no microphone, no processing graph and no socket.
C26_StopReleases ==
  \A i \in DOMAIN streamers :
    (streamers[i].stopped /\ streamers[i].pending = 0) => ~Holds(streamers[i])

\* C27: a socket error and an unclean close are reported through
\* onConnectionError; after a report the streamer opens no socket until
\* startStreaming is called again, and that call is accepted.
C27_ErrorsReportedNoReconnect ==
  [][/\ (ev'.op = "socketError" \/ (ev'.op = "socketClose" /\ ev'.inp = "unclean"))
          => Called(log', "onConnectionError")
     /\ ev'.op = "micGranted" => ~streamers[ev'.req].reported
     /\ (ev'.op = "startStreaming" /\ streamers[ev'.req].reported)
          => streamers'[ev'.req].starts = streamers[ev'.req].starts + 1]_vars

SentOn(xs, i, p) ==
  IF i \in DOMAIN xs /\ p \in DOMAIN xs[i].pipes THEN xs[i].pipes[p].sent ELSE <<>>

\* C29: the first frame sent on a socket is the config message, and an audio
\* frame is sent only on an open socket by a streamer that is not muted.
C29_ConfigFirst ==
  [][\A i \in 1..MaxStreamers, p \in 1..MaxStarts :
       LET old == SentOn(streamers, i, p)
           new == SentOn(streamers', i, p)
       IN  /\ new # <<>> => new[1] = "config"
           /\ (Len(new) > Len(old) /\ new[Len(new)] = "pcm")
                => (streamers[i].pipes[p].ws = "open" /\ ~streamers[i].isMuted)]_vars

\* audio has followed the config message on a socket
C29_Witness ==
  \E i \in DOMAIN streamers : \E p \in DOMAIN streamers[i].pipes :
    streamers[i].pipes[p].sent = <<"config", "pcm">>

\* C30: a speak request whose text is the text being spoken opens no
\* connection, creates no audio context, schedules no audio and calls neither
\* onSpeakingStateChange nor onComplete.
C30_DuplicateSpeakNoOp ==
  [][(/\ spIsSpeaking
      /\ wsRef # 0
      /\ ev'.op = "setText"
      /\ textToSpeak' = conns[wsRef].text)
       => /\ conns' = conns
          /\ wsRef' = wsRef
          /\ audioCtx' = audioCtx
          /\ sources' = sources
          /\ playingSources' = playingSources
          /\ spIsSpeaking' = spIsSpeaking
          /\ log' = <<>>]_vars

\* the text being spoken was requested again after its socket had opened
C30_Witness ==
  /\ ev.op = "setText"
  /\ spIsSpeaking
  /\ wsRef # 0
  /\ conns[wsRef].rs = "OPEN"
  /\ textToSpeak = conns[wsRef].text

\* the speak() calls whose synthesis connection is connecting or open
SynthesisContexts ==
  { c \in DOMAIN conns : conns[c].rs \in {"CONNECTING", "OPEN"} }

\* C31: at every instant at most one synthesis connection is connecting or
\* open.
C31_OneSynthesisContext == Cardinality(SynthesisContexts) <= 1

\* C32: when an idle player is handed a text that yields no sentences and is
\* not the text it spoke last, no connection is opened, no audio is scheduled
\* and onComplete is called.
C32_EmptyTextCompletes ==
  [][(/\ ev'.op = "setText"
      /\ ~spIsSpeaking
      /\ splitSentences(textToSpeak') = <<>>
      /\ textToSpeak' # lastSpokenText)
       => /\ conns' = conns
          /\ sources' = sources
          /\ ~spIsSpeaking'
          /\ Called(log', "onComplete")]_vars

\* C33: after every processed block the noise floor is not negative and
\* speechThreshold > silenceThreshold > noiseFloor.
C33_ThresholdsOrdered ==
  currentRms # -1 =>
    /\ noiseFloor >= 0
    /\ silenceThreshold(noiseFloor) > noiseFloor
    /\ speechThreshold(noiseFloor) > silenceThreshold(noiseFloor)

\* blocks of digital silence have brought the floor below its initial value
\* and the gain below its first values
C33_Witness ==
  /\ currentRms = 0
  /\ noiseFloor < noiseFloor0
  /\ 2 * kalmanGain(P + Q) < GainUnit \div 10

\* |noiseFloor - rms|
Distance(nf, rms) == IF nf >= rms THEN nf - rms ELSE rms - nf

\* a block never moves the noise floor away from the block's RMS
NeverFarther ==
  [][currentRms' # -1 =>
       Distance(noiseFloor', currentRms') <= Distance(noiseFloor, currentRms')]_vars

\* the noise floor is the RMS of the blocks
ReachedRms == currentRms # -1 /\ Distance(noiseFloor, currentRms) = 0

\* the gain times the distance is at most half a unit of the noise floor
WithinRounding ==
  /\ currentRms # -1
  /\ 2 * kalmanGain(P + Q) * Distance(noiseFloor, currentRms) <= GainUnit

C35_SpeakingEnds ==
  (Live /\ ev.op = "response" /\ state = SPEAKING) ~> (state # SPEAKING \/ ~Live)

\* C36: isWaitingForResponse is true while a dialogue request is in flight,
\* and false when every request issued has settled.
C36_WaitingTracksInFlight ==
  /\ InFlight(requests) # {} => isWaitingForResponse
  /\ (\A r \in DOMAIN requests : requests[r].settled) => ~isWaitingForResponse

\* C37: a response that arrives while the history is empty answers a request
\* issued before resetConversation() (sendMessage appends the user's message
\* before it issues a request); it appends no message and does not move the
\* state away from IDLE.
C37_NoResponseAfterReset ==
  [][(ev'.op = "response" /\ messages = <<>>)
       => (messages' = <<>> /\ (state = IDLE => state' = IDLE))]_vars

\* C38: a streamer delivers no transcript, interim or final, and has no
\* silence timer pending, from the return of stopStreaming() to the next
\* startStreaming().
C38_SilentAfterStop ==
  [][\A i \in DOMAIN streamers :
       (streamers[i].stopped /\ streamers'[i].stopped)
         => /\ ~streamers'[i].timer
            /\ (ev'.req = i /\ ev'.op \in {"socketMessage", "channelTimer"})
                 => /\ ~Called(log', "onTranscriptUpdate:interim")
                    /\ ~Called(log', "onTranscriptUpdate:final")]_vars

\* C39: stitching the fragment stitched last once more changes nothing, and
\* the utterance submitted when the silence timer hands that fragment over
\* as the final transcript is the utterance as it stood.
C39_RedeliveryAddsNothing ==
  [][/\ (ev.op = "intelligentStitch" /\ ev'.op = "intelligentStitch"
           /\ lastTranscript' = lastTranscript)
          => currentUtterance' = currentUtterance
     /\ (ev'.op = "redeliver" /\ Len(requests') > Len(requests))
          => requests'[Len(requests')].content = currentUtterance]_vars

====
